---- MODULE Spec2Model ----
(***************************************************************************)
(* A model of kstore's ActionKv (src/src/lib.rs): an append-only log file  *)
(* of checksummed key/value records and an in-memory index key -> offset.  *)
(*                                                                         *)
(* The log is modelled byte by byte.  32-bit quantities are kept as their  *)
(* four little-endian bytes, or as a pair of 16-bit halves, so that the    *)
(* width of the arithmetic of the code is preserved.                       *)
(***************************************************************************)
EXTENDS Integers, Sequences, FiniteSets, TLC

(***************************************************************************)
(* Bounds of the model.                                                    *)
(***************************************************************************)
\* Appends are taken while the log stays within this many bytes.
MaxLogLen == 28
\* Capacity of the BufReader / BufWriter wrapped around the file.  The
\* standard library uses 8 KiB; the model scales it down so that a log can
\* be longer than one buffer, which is what decides where a read leaves the
\* file cursor.
BufCapacity == 16
\* Largest byte value used in the keys and values the operations are given.
MaxByte == 2
\* File operations fail at most this many times in a behaviour.
MaxFaults == 1

Min(a, b) == IF a < b THEN a ELSE b
Max(a, b) == IF a > b THEN a ELSE b

(***************************************************************************)
(* The record codec.                                                       *)
(***************************************************************************)
\* Size of the fixed header: checksum, key_len, value_len, 4 bytes each.
HeaderLen == 12

\* A value that stands for "a length of 2^16 or more": no log of the model
\* is that long, so every comparison with a length of the model is exact.
Huge == 256 * 256

\* Exclusive or of two numbers below 2^n.
RECURSIVE Xor(_, _, _)
Xor(a, b, n) ==
    IF n = 0 THEN 0 ELSE ((a + b) % 2) + 2 * Xor(a \div 2, b \div 2, n - 1)

\* Row a of the table of the exclusive or of 4-bit numbers: a xor 0 .. a xor (n - 1).
RECURSIVE XorRow(_, _)
XorRow(a, n) == IF n = 0 THEN << >> ELSE Append(XorRow(a, n - 1), Xor(a, n - 1, 4))

RECURSIVE XorRows(_)
XorRows(n) == IF n = 0 THEN << >> ELSE Append(XorRows(n - 1), XorRow(n - 1, 16))

\* XorTable[a + 1][b + 1] is a xor b for 4-bit numbers a and b.
XorTable == XorRows(16)

\* Exclusive or of two bytes.
Xor8(a, b) ==
    16 * XorTable[(a \div 16) + 1][(b \div 16) + 1] + XorTable[(a % 16) + 1][(b % 16) + 1]

\* The generator polynomial 0x04C11DB7 of CRC-32/CKSUM, as two 16-bit halves.
CrcPolyHi == 1217
CrcPolyLo == 7607

\* One shift of the 32-bit register <<high half, low half>> (not reflected).
CrcShift(reg) ==
    IF reg[1] \div 32768 = 1
        THEN << Xor((reg[1] % 32768) * 2 + (reg[2] \div 32768), CrcPolyHi, 16),
                Xor((reg[2] % 32768) * 2, CrcPolyLo, 16) >>
        ELSE << (reg[1] % 32768) * 2 + (reg[2] \div 32768), (reg[2] % 32768) * 2 >>

\* The register after eight shifts.
CrcShift8(reg) ==
    CrcShift(CrcShift(CrcShift(CrcShift(CrcShift(CrcShift(CrcShift(CrcShift(reg))))))))

\* A register <<high half, low half>> as four bytes, most significant first.
Bytes4(reg) == << reg[1] \div 256, reg[1] % 256, reg[2] \div 256, reg[2] % 256 >>

\* The lookup table of the byte-wise algorithm, in 16 rows of 16 entries:
\* CrcTable[(b \div 16) + 1][(b % 16) + 1] is the register reached from b in
\* the top byte.
RECURSIVE CrcRow(_, _)
CrcRow(a, n) ==
    IF n = 0 THEN << >>
    ELSE Append(CrcRow(a, n - 1), Bytes4(CrcShift8(<< (16 * a + n - 1) * 256, 0 >>)))

RECURSIVE CrcRows(_)
CrcRows(n) == IF n = 0 THEN << >> ELSE Append(CrcRows(n - 1), CrcRow(n - 1, 16))

CrcTable == CrcRows(16)

\* The entry of the table for byte b.
CrcEntry(b) == CrcTable[(b \div 16) + 1][(b % 16) + 1]

\* (crc << 8) ^ entry, on registers of four bytes, most significant first.
CrcFold(reg, entry) ==
    << Xor8(reg[2], entry[1]), Xor8(reg[3], entry[2]), Xor8(reg[4], entry[3]), entry[4] >>

\* The register after one more byte of input:
\* crc = (crc << 8) ^ table[(crc >> 24) ^ byte].
CrcByte(reg, b) == CrcFold(reg, CrcEntry(Xor8(reg[1], b)))

\* The register after the first n bytes of data.
RECURSIVE CrcReg(_, _)
CrcReg(data, n) ==
    IF n = 0 THEN << 0, 0, 0, 0 >> ELSE CrcByte(CrcReg(data, n - 1), data[n])

\* The register xored with 0xFFFFFFFF, as the four bytes
\* write_u32::<LittleEndian> emits.
CrcOut(reg) == << 255 - reg[4], 255 - reg[3], 255 - reg[2], 255 - reg[1] >>

\* crc32.checksum(&data) for CRC_32_CKSUM (init 0, xorout 0xFFFFFFFF).
Checksum(data) == CrcOut(CrcReg(data, Len(data)))

\* write_u32::<LittleEndian>(n as u32) for a length n.
LE32(n) ==
    << n % 256, (n \div 256) % 256, (n \div 65536) % 256, (n \div 16777216) % 256 >>

\* A u32 read by read_u32::<LittleEndian>, as its two 16-bit halves.
Lo16(b) == b[1] + 256 * b[2]
Hi16(b) == b[3] + 256 * b[4]

\* The value of a u32 given by its halves, clamped at Huge.
Clamp(hi, lo) == IF hi = 0 THEN lo ELSE Huge

\* The bytes insert_but_ignore_index writes for (key, value).
EncodeRecord(key, value) ==
    Checksum(key \o value) \o LE32(Len(key)) \o LE32(Len(value)) \o key \o value


(***************************************************************************)
(* The file behind a BufReader.  A reader is the pair of the file cursor   *)
(* (cur) and the number of bytes read ahead into the buffer and not yet    *)
(* consumed (buf); the position the caller sees is cur - buf.              *)
(***************************************************************************)
\* BufReader::fill_buf on an empty buffer: one read of up to BufCapacity bytes.
FillLen(L, cur) == Min(BufCapacity, Max(0, L - cur))

\* Consume up to n more bytes through the reader, got bytes having been
\* consumed so far, refilling the buffer whenever it is empty; stops early
\* at the end of the file.  L is the file length.
RECURSIVE BufReadMore(_, _, _, _, _)
BufReadMore(L, cur, buf, n, got) ==
    IF n = 0 THEN [got |-> got, cur |-> cur, buf |-> buf]
    ELSE IF buf > 0
        THEN BufReadMore(L, cur, buf - Min(n, buf), n - Min(n, buf), got + Min(n, buf))
    ELSE IF FillLen(L, cur) = 0 THEN [got |-> got, cur |-> cur, buf |-> 0]
    ELSE BufReadMore(L, cur + FillLen(L, cur), FillLen(L, cur), n, got)

BufRead(L, cur, buf, n) == BufReadMore(L, cur, buf, n, 0)

\* The four bytes a read_exact that consumed r.got bytes from position at has read.
U32Read(log, at, r) ==
    [ok |-> r.got = 4, bytes |-> SubSeq(log, at + 1, at + r.got), cur |-> r.cur, buf |-> r.buf]

\* read_u32::<LittleEndian>: read_exact of four bytes at the reader's position.
ReadU32(log, rd) ==
    U32Read(log, rd.cur - rd.buf, BufRead(Len(log), rd.cur, rd.buf, 4))

\* The outcome of decoding one record: cur is the file cursor afterwards,
\* next the position after the bytes consumed.
\*   kind "Ok"    : Ok(KeyValuePair { key, value })
\*   kind "Eof"   : Err(UnexpectedEof) from one of the three header reads
\*   kind "Panic" : the thread panicked (why says where)
\* complete says that every byte the header declares was there to read.
Decoded(kind, why, key, value, complete, rd) ==
    [kind |-> kind, why |-> why, key |-> key, value |-> value,
     cur |-> rd.cur, next |-> rd.cur - rd.buf, complete |-> complete]

\* A panic, after the header was read.
Panicked(why, complete, rd) == Decoded("Panic", why, << >>, << >>, complete, rd)

\* Err(UnexpectedEof) from a header read.
EndOfFile(rd) == Decoded("Eof", "", << >>, << >>, FALSE, rd)

\* process_record from the checksum comparison on: data is what read_to_end
\* put into the buffer (its result is dropped), d the reader after it.
VerifyRecord(debug, saved_checksum, key_len, data_len, d, data) ==
    IF debug /\ Len(data) # data_len
        THEN Panicked("debug_assert", FALSE, d)
    ELSE IF Checksum(data) # saved_checksum
        THEN Panicked("data corruption", Len(data) = data_len, d)
    ELSE IF key_len > Len(data)
        THEN Panicked("split_off", Len(data) = data_len, d)
    ELSE Decoded("Ok", "", SubSeq(data, 1, key_len),
                 SubSeq(data, key_len + 1, Len(data)), Len(data) = data_len, d)

\* f.by_ref().take(data_len).read_to_end(&mut data), at the reader h3 left
\* after the header.
ReadData(log, debug, saved_checksum, key_len, data_len, h3, d) ==
    VerifyRecord(debug, saved_checksum, key_len, data_len, d,
                 SubSeq(log, h3.cur - h3.buf + 1, h3.cur - h3.buf + d.got))

\* let data_len = key_len + value_len, in u32, given as the 16-bit halves of
\* the sum: an overflow panics in a debug build and wraps in a release build.
AddLengths(log, debug, saved_checksum, key_len, sumHi, sumLo, h3) ==
    IF debug /\ sumHi >= 65536
        THEN Panicked("add overflow", FALSE, h3)
    ELSE ReadData(log, debug, saved_checksum, key_len,
                  Clamp(sumHi % 65536, sumLo % 65536), h3,
                  BufRead(Len(log), h3.cur, h3.buf, Clamp(sumHi % 65536, sumLo % 65536)))

\* process_record after the three header reads h1, h2, h3.
DecodeHeader(log, debug, h1, h2, h3) ==
    AddLengths(log, debug, h1.bytes, Clamp(Hi16(h2.bytes), Lo16(h2.bytes)),
               Hi16(h2.bytes) + Hi16(h3.bytes)
                   + ((Lo16(h2.bytes) + Lo16(h3.bytes)) \div 65536),
               Lo16(h2.bytes) + Lo16(h3.bytes), h3)

ReadValueLen(log, debug, h1, h2, h3) ==
    IF ~h3.ok THEN EndOfFile(h3)
    ELSE DecodeHeader(log, debug, h1, h2, h3)

ReadKeyLen(log, debug, h1, h2) ==
    IF ~h2.ok THEN EndOfFile(h2)
    ELSE ReadValueLen(log, debug, h1, h2, ReadU32(log, h2))

ReadChecksum(log, debug, h1) ==
    IF ~h1.ok THEN EndOfFile(h1)
    ELSE ReadKeyLen(log, debug, h1, ReadU32(log, h1))

\* ActionKv::process_record on a reader with an empty buffer and the file
\* cursor at pos.  debug is TRUE for a build with debug assertions (and
\* overflow checks), FALSE for a release build.
process_record(log, debug, pos) ==
    ReadChecksum(log, debug, ReadU32(log, [cur |-> pos, buf |-> 0]))

\* A HashMap::insert that keeps the entry a key already has.
IndexInsertKeepsOld(idx, key, position) ==
    [x \in (DOMAIN idx) \cup {key} |-> IF x \in DOMAIN idx THEN idx[x] ELSE position]

\* HashMap::insert on the index (a function from keys to offsets).
IndexInsert(idx, key, position) ==
    [x \in (DOMAIN idx) \cup {key} |-> IF x = key THEN position ELSE idx[x]]

\* HashMap::new()
EmptyIndex == << >>

\* One iteration of the loop of ActionKv::load, maybe_kv being what
\* process_record returned at current_position.
RECURSIVE load_step(_, _, _, _, _)
load_step(log, debug, current_position, idx, maybe_kv) ==
    IF maybe_kv.kind = "Ok"
        THEN load_step(log, debug, maybe_kv.next,
                       IndexInsert(idx, maybe_kv.key, current_position),
                       process_record(log, debug, maybe_kv.next))
    ELSE IF maybe_kv.kind = "Eof"
        THEN [kind |-> "Ok", why |-> "", complete |-> FALSE,
              index |-> idx, cur |-> maybe_kv.cur]
    ELSE [kind |-> "Panic", why |-> maybe_kv.why, complete |-> maybe_kv.complete,
          index |-> idx, cur |-> maybe_kv.cur]

\* A load that returns after the first record it decoded.
load_first_record(log, debug, cursor, idx) ==
    LET maybe_kv == process_record(log, debug, cursor)
    IN  IF maybe_kv.kind = "Ok"
            THEN [kind |-> "Ok", why |-> "", complete |-> FALSE,
                  index |-> IndexInsert(idx, maybe_kv.key, cursor), cur |-> maybe_kv.cur]
        ELSE load_step(log, debug, cursor, idx, maybe_kv)

\* The loop of ActionKv::load: it starts at the file cursor it is given.
load_loop(log, debug, cursor, idx) ==
    load_step(log, debug, cursor, idx, process_record(log, debug, cursor))

\* Option<(u64, ByteString)>
NoneFound == [some |-> FALSE, off |-> 0, value |-> << >>]
SomeFound(off, value) == [some |-> TRUE, off |-> off, value |-> value]

\* One iteration of the loop of ActionKv::find, maybe_kv being what
\* process_record returned at position.
RECURSIVE find_step(_, _, _, _, _, _)
find_step(log, debug, position, target, found, maybe_kv) ==
    IF maybe_kv.kind = "Ok"
        THEN find_step(log, debug, maybe_kv.next, target,
                       IF maybe_kv.key = target
                           THEN SomeFound(position, maybe_kv.value) ELSE found,
                       process_record(log, debug, maybe_kv.next))
    ELSE IF maybe_kv.kind = "Eof"
        THEN [kind |-> "Ok", why |-> "", complete |-> FALSE,
              found |-> found, cur |-> maybe_kv.cur]
    ELSE [kind |-> "Panic", why |-> maybe_kv.why, complete |-> maybe_kv.complete,
          found |-> found, cur |-> maybe_kv.cur]

\* The loop of ActionKv::find: it starts at the file cursor it is given.
find_loop(log, debug, cursor, target) ==
    find_step(log, debug, cursor, target, NoneFound, process_record(log, debug, cursor))

\* ActionKv::get_at: seek to position, decode one record there.
get_at(log, debug, position) == process_record(log, debug, position)


(***************************************************************************)
(* The write path.                                                         *)
(***************************************************************************)
\* What the file operations of one call do: all succeed, the seeks fail, or
\* the writes fail.
IoOutcomes == {"none", "seek", "write"}

\* An insert_but_ignore_index on a file opened without append(true) and
\* without the seek to the end: the record is written at the file cursor,
\* over the bytes that are there.
insert_at_cursor(log, cursor, key, value, fail) ==
    LET record == EncodeRecord(key, value)
        at     == Min(cursor, Len(log))
    IN  [kind |-> "Ok", position |-> cursor,
         log |-> SubSeq(log, 1, at) \o record
                     \o SubSeq(log, at + Len(record) + 1, Len(log)),
         cur |-> at + Len(record)]

\* ActionKv::insert_but_ignore_index.  The file is opened with append(true),
\* so every write lands at the end of the file whatever the cursor is, and
\* leaves the cursor at the new end.  current_position is taken from
\* seek(Current(0)) BEFORE the seek to the end, whose result is dropped, as
\* are the results of the two length writes.  The BufWriter holds the header
\* (and a payload that fits its spare capacity) until it is dropped at the
\* end of the function, and a failure of the flush in drop is ignored.
insert_but_ignore_index(log, cursor, key, value, fail) ==
    LET temp  == key \o value
        spare == BufCapacity - HeaderLen
        current_position == cursor
    IN  IF fail = "seek"
            THEN [kind |-> "IoError", position |-> 0, log |-> log, cur |-> cursor]
        ELSE IF fail = "write"
            THEN IF Len(temp) > spare
                \* write_all flushes the header first: flush_buf()? returns the error
                THEN [kind |-> "IoError", position |-> 0, log |-> log, cur |-> Len(log)]
                \* everything is still buffered at the return; the flush in drop fails silently
                ELSE [kind |-> "Ok", position |-> current_position,
                      log |-> log, cur |-> Len(log)]
        ELSE [kind |-> "Ok", position |-> current_position,
              log |-> log \o EncodeRecord(key, value),
              cur |-> Len(log) + HeaderLen + Len(temp)]

(***************************************************************************)
(* Inputs.                                                                 *)
(***************************************************************************)
Keys == {<<b>> : b \in 1..MaxByte}
Values == {<< >>} \cup {<<b>> : b \in 1..MaxByte}

RECURSIVE EncodeAll(_)
EncodeAll(recs) ==
    IF recs = << >> THEN << >>
    ELSE EncodeRecord(Head(recs)[1], Head(recs)[2]) \o EncodeAll(Tail(recs))

\* A sequence without its last n elements.
DropLast(s, n) == SubSeq(s, 1, Len(s) - n)

\* The files open() may find at the path: a run of complete records written
\* by an earlier instance (recs), followed by a tail that is empty, the
\* beginning of an interrupted append, or a record damaged on disk.
ExistingFiles ==
    LET r1 == << <<1>>, <<1>> >>
        r2 == << <<2>>, << >> >>
    IN  { [recs |-> << >>,        kind |-> "none", tail |-> << >>],
          [recs |-> << r1 >>,     kind |-> "none", tail |-> << >>],
          [recs |-> << r1, r2 >>, kind |-> "none", tail |-> << >>],
          [recs |-> << r1 >>, kind |-> "partial header",
           tail |-> SubSeq(EncodeRecord(<<2>>, <<1>>), 1, 5)],
          [recs |-> << r1 >>, kind |-> "partial payload",
           tail |-> DropLast(EncodeRecord(<<2>>, <<1>>), 1)],
          \* a partial payload of zero bytes
          [recs |-> << r1 >>, kind |-> "partial payload",
           tail |-> DropLast(EncodeRecord(<< >>, <<0, 0>>), 1)],
          \* a complete record with one bit of its value flipped (1 -> 3)
          [recs |-> << r1 >>, kind |-> "corrupt",
           tail |-> DropLast(EncodeRecord(<<2>>, <<1>>), 1) \o <<3>>],
          \* a header whose lengths add up to 2^32 + 1: key_len 2^32 - 1,
          \* value_len 2, with one byte of payload and the checksum of that byte
          [recs |-> << >>, kind |-> "overflow",
           tail |-> Checksum(<<1>>) \o <<255, 255, 255, 255>> \o LE32(2) \o <<1>>] }

\* No file at the path.
NoFile == [recs |-> << >>, kind |-> "absent", tail |-> << >>]

\* key -> [off, value] of the last record of each key in a run of records
\* that starts at offset off.
RECURSIVE LatestOf(_, _, _)
LatestOf(recs, off, acc) ==
    IF recs = << >> THEN acc
    ELSE LET k == Head(recs)[1]
             v == Head(recs)[2]
         IN  LatestOf(Tail(recs), off + HeaderLen + Len(k) + Len(v),
                      [x \in (DOMAIN acc) \cup {k} |->
                          IF x = k THEN [off |-> off, value |-> v] ELSE acc[x]])

(***************************************************************************)
(* State.                                                                  *)
(***************************************************************************)
VARIABLES
    log,      \* the bytes of the file
    cursor,   \* the position of the file handle self.f
    index,    \* self.index
    status,   \* "ready", or "panicked" once an operation has panicked
    debug,    \* TRUE: built with debug assertions; FALSE: a release build
    last,     \* the last operation: its arguments and what it returned
    written,  \* history: key -> [off, value] of the last complete record of
              \* each key that was appended to the file (or was in it at first)
    tail,     \* history: what follows the complete records the file held at
              \* first: "none", "partial header", "partial payload", "corrupt",
              \* or "buried" once a record was appended behind such a tail
    known,    \* history: key -> the greatest offset of a record of that key
              \* this instance wrote through insert or saw in load
    raw,      \* history: this instance called insert_but_ignore_index directly
    faults,   \* the number of file operations that have failed so far
    exists    \* there is a file at the path

vars == << log, cursor, index, status, debug, last, written, tail, known, raw, faults,
          exists >>

\* The file is a run of complete valid records.
clean == tail = "none"

\* What an operation returned.  kind is "Ok", "None", "Some", "Record",
\* "IoError", or "Panic" when the call did not return; why names the panic
\* and complete says whether the record it was about was complete.
Res(kind, off, key, value, why, complete) ==
    [kind |-> kind, off |-> off, key |-> key, value |-> value, why |-> why,
     complete |-> complete]

Done(kind) == Res(kind, 0, << >>, << >>, "", FALSE)

\* The record of an operation; first says that it is the first one after
\* open, afterSeek that it follows a seek_to_end immediately.
Op(op, key, value, off, fail, res) ==
    [op |-> op, key |-> key, value |-> value, off |-> off, fail |-> fail, res |-> res,
     first |-> (last.op = "open"), afterSeek |-> (last.op = "seek_to_end"),
     lenBefore |-> Len(log)]

\* The greater offset per key of two maps key -> offset.
Newest(a, b) ==
    [x \in (DOMAIN a) \cup (DOMAIN b) |->
        IF x \notin DOMAIN a THEN b[x]
        ELSE IF x \notin DOMAIN b THEN a[x]
        ELSE Max(a[x], b[x])]

\* ActionKv::open(path).  OpenOptions is given read, write and append but
\* not create: on a path without a file File::open fails (NotFound), open
\* returns that error and no store is constructed (status "closed"); on an
\* existing file nothing is read and the cursor is at 0.
Init ==
    /\ \E file \in ExistingFiles \cup {NoFile} :
        /\ exists = (file.kind # "absent")
        /\ log = EncodeAll(file.recs) \o file.tail
        /\ written = LatestOf(file.recs, 0, << >>)
        /\ tail = file.kind
    /\ cursor = 0
    /\ index = EmptyIndex
    /\ status = IF exists THEN "ready" ELSE "closed"
    /\ debug \in BOOLEAN
    /\ last = [op |-> "open", key |-> << >>, value |-> << >>, off |-> 0,
               fail |-> "none", res |-> Done(IF exists THEN "Ok" ELSE "IoError"),
               first |-> FALSE, afterSeek |-> FALSE, lenBefore |-> Len(log)]
    /\ known = << >>
    /\ raw = FALSE
    /\ faults = 0

\* The store is dropped (or the process restarted after a panic, or open
\* tried again after it failed) and the same path is opened again.
Open ==
    /\ last.op # "open" \/ ~exists
    /\ cursor' = 0
    /\ index' = EmptyIndex
    /\ status' = IF exists THEN "ready" ELSE "closed"
    /\ last' = Op("open", << >>, << >>, 0, "none", Done(IF exists THEN "Ok" ELSE "IoError"))
    /\ known' = << >>
    /\ raw' = FALSE
    /\ UNCHANGED << log, debug, written, tail, faults, exists >>

\* ActionKv::load
Load ==
    /\ status = "ready"
    /\ \E r \in {load_loop(log, debug, cursor, index)} :
           /\ index' = r.index
           /\ cursor' = r.cur
           /\ status' = IF r.kind = "Panic" THEN "panicked" ELSE "ready"
           /\ last' = Op("load", << >>, << >>, 0, "none",
                         Res(r.kind, 0, << >>, << >>, r.why, r.complete))
           /\ known' = Newest(known, r.index)
    /\ UNCHANGED << log, debug, written, tail, raw, faults, exists >>

\* A seek_to_end that reports the end of the file and leaves the file
\* cursor where it was.
SeekToEndKeepsCursor ==
    /\ status = "ready"
    /\ last' = Op("seek_to_end", << >>, << >>, 0, "none",
                  Res("Ok", Len(log), << >>, << >>, "", FALSE))
    /\ UNCHANGED << log, cursor, index, status, debug, written, tail, known, raw, faults,
                    exists >>

\* ActionKv::seek_to_end
SeekToEnd ==
    /\ status = "ready"
    /\ cursor' = Len(log)
    /\ last' = Op("seek_to_end", << >>, << >>, 0, "none",
                  Res("Ok", Len(log), << >>, << >>, "", FALSE))
    /\ UNCHANGED << log, index, status, debug, written, tail, known, raw, faults, exists >>

\* What get and get_at return for the outcome kv of process_record.
Fetched(some, kv) ==
    IF kv.kind = "Ok"
        THEN Res(some, 0, IF some = "Record" THEN kv.key ELSE << >>, kv.value, "",
                 kv.complete)
    \* UnexpectedEof is returned to the caller as the io::Error it is
    ELSE Res(kv.kind, 0, << >>, << >>, kv.why, kv.complete)

\* A get that looks for a key without an index entry at offset 0 of the file.
GetReadsOnMiss(key) ==
    /\ status = "ready"
    /\ \E position \in {IF key \in DOMAIN index THEN index[key] ELSE 0} :
       \E kv \in {get_at(log, debug, position)} :
           /\ cursor' = kv.cur
           /\ status' = IF kv.kind = "Panic" THEN "panicked" ELSE "ready"
           /\ last' = Op("get", key, << >>, position, "none", Fetched("Some", kv))
    /\ UNCHANGED << log, index, debug, written, tail, known, raw, faults, exists >>

\* ActionKv::get
Get(key) ==
    /\ status = "ready"
    /\ IF key \notin DOMAIN index
         THEN /\ last' = Op("get", key, << >>, 0, "none", Done("None"))
              /\ UNCHANGED << cursor, status >>
         ELSE \E position \in {index[key]} : \E kv \in {get_at(log, debug, position)} :
                  /\ cursor' = kv.cur
                  /\ status' = IF kv.kind = "Panic" THEN "panicked" ELSE "ready"
                  /\ last' = Op("get", key, << >>, position, "none", Fetched("Some", kv))
    /\ UNCHANGED << log, index, debug, written, tail, known, raw, faults, exists >>

\* The offsets get_at is called with: those the index holds, the start of
\* the file, the end of the file and an offset past it.
Offsets == {index[k] : k \in DOMAIN index} \cup {0, Len(log), Len(log) + 2}

\* A get_at that enters the record it decoded into the index.
GetAtIndexes(position) ==
    /\ status = "ready"
    /\ \E kv \in {get_at(log, debug, position)} :
           /\ cursor' = kv.cur
           /\ status' = IF kv.kind = "Panic" THEN "panicked" ELSE "ready"
           /\ last' = Op("get_at", << >>, << >>, position, "none", Fetched("Record", kv))
           /\ index' = IF kv.kind = "Ok" THEN IndexInsert(index, kv.key, position) ELSE index
    /\ UNCHANGED << log, debug, written, tail, known, raw, faults, exists >>

\* ActionKv::get_at
GetAt(position) ==
    /\ status = "ready"
    /\ \E kv \in {get_at(log, debug, position)} :
           /\ cursor' = kv.cur
           /\ status' = IF kv.kind = "Panic" THEN "panicked" ELSE "ready"
           /\ last' = Op("get_at", << >>, << >>, position, "none", Fetched("Record", kv))
    /\ UNCHANGED << log, index, debug, written, tail, known, raw, faults, exists >>

\* ActionKv::find
Find(target) ==
    /\ status = "ready"
    /\ \E r \in {find_loop(log, debug, cursor, target)} :
           /\ cursor' = r.cur
           /\ status' = IF r.kind = "Panic" THEN "panicked" ELSE "ready"
           /\ last' = Op("find", target, << >>, 0, "none",
                         IF r.kind = "Panic"
                             THEN Res("Panic", 0, << >>, << >>, r.why, r.complete)
                         ELSE IF r.found.some
                             THEN Res("Some", r.found.off, << >>, r.found.value, "", FALSE)
                         ELSE Done("None"))
    /\ UNCHANGED << log, index, debug, written, tail, known, raw, faults, exists >>

\* A file operation fails only while the bound on failures allows it.
Faulted(fail) ==
    /\ fail # "none" => faults < MaxFaults
    /\ faults' = IF fail = "none" THEN faults ELSE faults + 1

\* An append fits the bound of the model.
Fits(key, value) == Len(log) + HeaderLen + Len(key) + Len(value) <= MaxLogLen

\* The history of the file after a call of insert_but_ignore_index that
\* left the file as newLog.
Appended(key, value, newLog) ==
    /\ written' = IF newLog = log THEN written
                  ELSE [x \in (DOMAIN written) \cup {key} |->
                           IF x = key THEN [off |-> Len(log), value |-> value]
                           ELSE written[x]]
    /\ tail' = IF newLog = log \/ tail = "none" THEN tail ELSE "buried"

\* ActionKv::insert, under the name op (insert, update and delete are one code path).
InsertAs(op, key, value, fail) ==
    /\ status = "ready"
    /\ Fits(key, value)
    /\ \E w \in {insert_but_ignore_index(log, cursor, key, value, fail)} :
           /\ log' = w.log
           /\ cursor' = w.cur
           /\ index' = IF w.kind = "Ok" THEN IndexInsert(index, key, w.position) ELSE index
           /\ last' = Op(op, key, value, 0, fail, Done(w.kind))
           /\ Appended(key, value, w.log)
           /\ known' = IF w.log = log THEN known
                       ELSE Newest(known, [x \in {key} |-> Len(log)])
    /\ Faulted(fail)
    /\ UNCHANGED << status, debug, raw, exists >>

\* ActionKv::insert
Insert(key, value, fail) == InsertAs("insert", key, value, fail)

\* ActionKv::update
Update(key, value, fail) == InsertAs("update", key, value, fail)

\* ActionKv::delete
Delete(key, fail) == InsertAs("delete", key, << >>, fail)

\* ActionKv::insert_but_ignore_index called by the user of the store.
InsertButIgnoreIndex(key, value, fail) ==
    /\ status = "ready"
    /\ Fits(key, value)
    /\ \E w \in {insert_but_ignore_index(log, cursor, key, value, fail)} :
           /\ log' = w.log
           /\ cursor' = w.cur
           /\ last' = Op("insert_but_ignore_index", key, value, 0, fail,
                         Res(w.kind, w.position, << >>, << >>, "", FALSE))
           /\ Appended(key, value, w.log)
    /\ raw' = TRUE
    /\ Faulted(fail)
    /\ UNCHANGED << index, status, debug, known, exists >>

\* The operations with every file operation succeeding.
Next ==
    \/ Open
    \/ Load
    \/ SeekToEnd
    \/ \E key \in Keys : Get(key)
    \/ \E position \in Offsets : GetAt(position)
    \/ \E target \in Keys : Find(target)
    \/ \E key \in Keys, value \in Values : Insert(key, value, "none")
    \/ \E key \in Keys, value \in Values : Update(key, value, "none")
    \/ \E key \in Keys : Delete(key, "none")
    \/ \E key \in Keys, value \in Values : InsertButIgnoreIndex(key, value, "none")

Spec == Init /\ [][Next]_vars

\* The operations with file operations that may fail.
NextIo ==
    \/ Open
    \/ Load
    \/ SeekToEnd
    \/ \E key \in Keys : Get(key)
    \/ \E position \in Offsets : GetAt(position)
    \/ \E target \in Keys : Find(target)
    \/ \E key \in Keys, value \in Values, fail \in IoOutcomes : Insert(key, value, fail)
    \/ \E key \in Keys, value \in Values, fail \in IoOutcomes : Update(key, value, fail)
    \/ \E key \in Keys, fail \in IoOutcomes : Delete(key, fail)
    \/ \E key \in Keys, value \in Values, fail \in IoOutcomes :
           InsertButIgnoreIndex(key, value, fail)

SpecIo == Init /\ [][NextIo]_vars


(***************************************************************************)
(* Properties.                                                             *)
(***************************************************************************)
\* The latest-record-per-key view of a file of complete records: key -> offset.
LatestOffsets == [k \in DOMAIN written |-> written[k].off]

WriteOps == {"insert", "update", "delete"}

\* C1: round trip.  In every state reachable after open, a get(k) that
\* immediately follows a successful insert(k, v) returns Some(v).
C1_InsertThenGet ==
    [][(/\ last.op = "insert"
        /\ last.res.kind = "Ok"
        /\ last'.op = "get"
        /\ last'.key = last.key)
       => (last'.res.kind = "Some" /\ last'.res.value = last.value)]_vars

\* C2: index invariant.  In a store written only through insert, update and
\* delete, every index entry K -> O points at the start of a complete record
\* whose key is K, and no record of key K that this instance wrote or saw in
\* load starts behind O.
C2_IndexInvariant ==
    (status = "ready" /\ ~raw) =>
        \A K \in DOMAIN index :
            /\ process_record(log, debug, index[K]).kind = "Ok"
            /\ process_record(log, debug, index[K]).complete
            /\ process_record(log, debug, index[K]).key = K
            /\ (K \in DOMAIN known => known[K] <= index[K])

\* C3: the append primitive writes the record at the end of the file and
\* returns the offset at which the record starts, the length of the file
\* just before the call, whatever the file cursor was; insert stores that
\* offset in the index.
C3_AppendOffset ==
    /\ (last.op = "insert_but_ignore_index" /\ last.res.kind = "Ok") =>
          /\ log = SubSeq(log, 1, last.lenBefore) \o EncodeRecord(last.key, last.value)
          /\ last.res.off = last.lenBefore
    /\ (last.op = "insert" /\ last.res.kind = "Ok") =>
          /\ log = SubSeq(log, 1, last.lenBefore) \o EncodeRecord(last.key, last.value)
          /\ last.key \in DOMAIN index
          /\ index[last.key] = last.lenBefore

\* C4: on a file of complete valid records find(key) returns the offset and
\* the value of the last record of the key, and None only if the file holds
\* no record of the key, whatever the file cursor was before the call.
C4_FindLast ==
    (last.op = "find" /\ clean) =>
        IF last.key \in DOMAIN written
            THEN /\ last.res.kind = "Some"
                 /\ last.res.off = written[last.key].off
                 /\ last.res.value = written[last.key].value
            ELSE last.res.kind = "None"


\* What get(k) returns in the current state agrees with the history: the
\* record the index points at is complete and holds the last value written.
ReadsLastWrite(k) ==
    /\ k \in DOMAIN index
    /\ get_at(log, debug, index[k]).kind = "Ok"
    /\ get_at(log, debug, index[k]).value = written[k].value

\* C5: replay correctness.  When a file that holds only records written by
\* insert, update and delete (by this instance or an earlier one) is opened
\* and then loaded, load returns Ok, the index is the map from each key to
\* the offset of the last record written for it, and get of every key
\* written returns the value of its last write.
C5_ReplayCorrect ==
    (last.op = "load" /\ last.first /\ clean) =>
        /\ last.res.kind = "Ok"
        /\ index = LatestOffsets
        /\ \A k \in DOMAIN written : ReadsLastWrite(k)

\* C5 happens: a load right after a reopen of a file that holds one key
\* written more than once, so that its entry is not its first record.
C5_Witness ==
    /\ last.op = "load" /\ last.first /\ clean
    /\ last.res.kind = "Ok"
    /\ Cardinality(DOMAIN index) = 1
    /\ \E k \in DOMAIN index : index[k] > 0 /\ written[k].off = index[k]

\* C6: load called in any state scans the whole file from offset 0 and, on
\* Ok, leaves the index equal to the latest-record-per-key view of the file.
C6_LoadRescans ==
    (last.op = "load" /\ clean) =>
        /\ last.res.kind = "Ok"
        /\ index = LatestOffsets

\* C7: a complete record whose stored checksum differs from the checksum of
\* its key and value makes get, get_at, load and find return an error; the
\* process is not terminated.
C7_CorruptionIsAnError ==
    last.op \in {"get", "get_at", "load", "find"} =>
        ~(last.res.kind = "Panic" /\ last.res.why = "data corruption" /\ last.res.complete)

\* C8: truncated tail.  On a freshly opened file of complete valid records
\* followed by a partial record, load returns Ok and the index is that of
\* the file without the partial tail.
C8_TruncatedTail ==
    (last.op = "load" /\ last.first /\ tail \in {"partial header", "partial payload"}) =>
        /\ last.res.kind = "Ok"
        /\ index = LatestOffsets

\* C9: tombstones.  delete(K) appends one record with an empty value, the
\* file never shrinks, and a get(K) that immediately follows delete(K)
\* returns Some(empty), never None.
C9_Tombstone ==
    [][/\ Len(log') >= Len(log)
       /\ (last'.op = "delete" /\ last' # last) =>
              log' = log \o EncodeRecord(last'.key, << >>)
       /\ (last.op = "delete" /\ last'.op = "get" /\ last'.key = last.key) =>
              (last'.res.kind = "Some" /\ last'.res.value = << >>)]_vars

\* C10: a failure of a file operation during insert, update, delete or
\* insert_but_ignore_index is returned as an IoError, and the index gains no
\* entry for a record that was not written.
C10_FailuresReturned ==
    [][(last'.op \in WriteOps \cup {"insert_but_ignore_index"} /\ last'.fail # "none") =>
           (last'.res.kind = "IoError" /\ index' = index)]_vars

\* C11: open on a path without a file creates an empty log file and returns
\* Ok with an empty index; open on an existing file returns Ok with an empty
\* index, reads nothing and leaves the content of the file as it was.
C11_OpenCreates ==
    last.op = "open" =>
        /\ exists
        /\ last.res.kind = "Ok"
        /\ status = "ready"
        /\ index = EmptyIndex
        /\ cursor = 0
        /\ Len(log) = last.lenBefore

\* The operations that append a record.
AppendOps == WriteOps \cup {"insert_but_ignore_index"}

\* C12: append-only log.  Whatever the operation and the file cursor, the
\* log before the operation is a prefix of the log after it; insert, update,
\* delete and insert_but_ignore_index extend it by one encoded record (a
\* 12-byte header, the key, the value) and no other operation changes its
\* length.
C12_AppendOnly ==
    [][/\ Len(log') >= Len(log)
       /\ SubSeq(log', 1, Len(log)) = log
       /\ IF last'.op \in AppendOps
              THEN /\ log' = log \o EncodeRecord(last'.key, last'.value)
                   /\ Len(log') = Len(log) + 12 + Len(last'.key) + Len(last'.value)
              ELSE Len(log') = Len(log)]_vars

\* C12 happens: an insert made while the file cursor was before the end of
\* a file that held records (the offset it indexed is below the old length).
C12_Witness ==
    /\ last.op = "insert"
    /\ last.res.kind = "Ok"
    /\ last.lenBefore > 0
    /\ index[last.key] < last.lenBefore
    /\ Len(log) = last.lenBefore + 12 + Len(last.key) + Len(last.value)

\* C13: seek_to_end returns the offset of the end of the file, and an insert
\* or insert_but_ignore_index that follows it immediately writes its record
\* at that offset and reports (indexes) that offset.
C13_SeekThenAppend ==
    [][/\ last'.op = "seek_to_end" =>
              (last'.res.kind = "Ok" /\ last'.res.off = Len(log))
       /\ (last.op = "seek_to_end" /\ last'.op \in {"insert", "insert_but_ignore_index"}) =>
              /\ last.res.off = Len(log)
              /\ log' = log \o EncodeRecord(last'.key, last'.value)
              /\ last'.res.kind = "Ok"
              /\ last'.op = "insert_but_ignore_index" => last'.res.off = last.res.off
              /\ last'.op = "insert" =>
                     (last'.key \in DOMAIN index' /\ index'[last'.key] = last.res.off)]_vars

\* C13 happens: an append primitive right after a seek_to_end on a file that
\* held a record, reporting the old length of the file.
C13_Witness ==
    /\ last.op = "insert_but_ignore_index"
    /\ last.afterSeek
    /\ last.res.kind = "Ok"
    /\ last.lenBefore > 0
    /\ last.res.off = last.lenBefore

\* C14: get of a key without an index entry returns Ok(None), not an error,
\* and does not read the file (the file cursor stays where it was); get of a
\* key with an index entry never returns Ok(None).
C14_GetMissing ==
    [][last'.op = "get" =>
           IF last'.key \in DOMAIN index
               THEN last'.res.kind # "None"
               ELSE /\ last'.res.kind = "None"
                    /\ cursor' = cursor
                    /\ status' = status]_vars

\* C14 happens: get returned None for a key that has a record in the file
\* and no index entry, while the index held another key.
C14_Witness ==
    /\ last.op = "get"
    /\ last.res.kind = "None"
    /\ last.key \notin DOMAIN index
    /\ last.key \in DOMAIN written
    /\ index # EmptyIndex

\* What get(k) returns on the file content lg with the index idx.
GetResult(lg, idx, k) ==
    IF k \notin DOMAIN idx THEN Done("None")
    ELSE Fetched("Some", get_at(lg, debug, idx[k]))

\* C15: insert_but_ignore_index(k, v) appends to the log what insert(k, v)
\* appends and leaves the index as it was, so that get of any key returns
\* after the call what it returned before it.
C15_IndexUntouched ==
    [][last'.op = "insert_but_ignore_index" =>
           /\ index' = index
           /\ log' = log \o EncodeRecord(last'.key, last'.value)
           /\ \A k \in Keys : GetResult(log', index', k) = GetResult(log, index, k)]_vars

\* C16: the end-of-log signal (UnexpectedEof) is consumed by load and find
\* and is never what load, find, get or get_at return to their caller, also
\* when get_at is given an offset at or beyond the end of the file.
C16_EofNotSurfaced ==
    last.op \in {"load", "find", "get", "get_at"} => last.res.kind # "Eof"

\* The offsets at which the records of a file of complete records start,
\* from offset p on, and the offset behind the last of them.
RECURSIVE Boundaries(_, _)
Boundaries(lg, p) ==
    IF p + HeaderLen > Len(lg) THEN {p}
    ELSE {p} \cup Boundaries(lg, p + HeaderLen + Lo16(SubSeq(lg, p + 5, p + 8))
                                               + Lo16(SubSeq(lg, p + 9, p + 12)))

\* In a scan that starts at offset p, every record process_record returns
\* took at least the 12 bytes of a header from the reader.
RECURSIVE Advances(_, _)
Advances(lg, p) ==
    \A kv \in {process_record(lg, debug, p)} :
        kv.kind = "Ok" => (kv.next >= p + 12 /\ Advances(lg, kv.next))

\* C17: load and find terminate on a finite log: an iteration of their loop
\* stops the loop or advances the read position by at least the 12 bytes of
\* a header; started at a record boundary of a file of complete valid
\* records they return Ok and leave the file cursor at the end of the file.
C17_ScansTerminate ==
    [][last'.op \in {"load", "find"} =>
           /\ Advances(log, cursor)
           /\ (clean /\ cursor \in Boundaries(log, 0)) =>
                  /\ last'.res.kind \in {"Ok", "None", "Some"}
                  /\ status' = "ready"
                  /\ cursor' = Len(log)]_vars

\* C17 happens: a find from offset 0 went through a file of two records,
\* longer than the buffer of the reader, and found the key.
C17_Witness ==
    /\ last.op = "find" /\ last.first /\ clean
    /\ last.res.kind = "Some"
    /\ Len(log) > BufCapacity
    /\ Cardinality(DOMAIN written) = 2
    /\ cursor = Len(log)

ReadOps == {"get", "get_at", "find", "seek_to_end"}

\* C18: get, get_at, find and seek_to_end leave the index and the content of
\* the log as they were, whether they return a value, None or an error.
C18_ReadsChangeNothing ==
    [][last'.op \in ReadOps => (index' = index /\ log' = log)]_vars

\* C18 happens: a get_at that returned an error on a store with records in
\* the file and entries in the index.
C18_Witness ==
    /\ last.op = "get_at"
    /\ last.res.kind = "Eof"
    /\ index # EmptyIndex
    /\ Len(log) > 0

\* key_len + value_len of the header at offset p, as a sum of integers (each
\* length clamped at Huge).
DeclaredLen(lg, p) ==
    Clamp(Hi16(SubSeq(lg, p + 5, p + 8)), Lo16(SubSeq(lg, p + 5, p + 8)))
        + Clamp(Hi16(SubSeq(lg, p + 9, p + 12)), Lo16(SubSeq(lg, p + 9, p + 12)))

\* C19: decoding takes key_len + value_len, the sum of integers, as the
\* number of payload bytes for every pair of 32-bit lengths: the addition
\* neither fails nor wraps, a payload counted as read in full has the
\* length the header declares, and a record returned from it has a key of
\* key_len bytes and a value of value_len bytes.
C19_LengthsDoNotWrap ==
    (last.op = "get_at" /\ last.off + HeaderLen <= Len(log)) =>
        /\ ~(last.res.kind = "Panic" /\ last.res.why = "add overflow")
        /\ last.res.complete =>
               DeclaredLen(log, last.off) <= Len(log) - last.off - HeaderLen
        /\ (last.res.kind = "Record" /\ last.res.complete) =>
               /\ Len(last.res.key) = Lo16(SubSeq(log, last.off + 5, last.off + 8))
               /\ Len(last.res.key) + Len(last.res.value) = DeclaredLen(log, last.off)

====
